---------------------------- MODULE Spec2Model ----------------------------
(***************************************************************************)
(* A model of cimi/cimiapp/cimiutils.py: the document reconciliation       *)
(* helpers (match_up, match_up_extra, has_extra, remove_member) and the    *)
(* backend probe (access_resource).                                        *)
(*                                                                         *)
(* Python values are tagged records: None, numbers, dicts and lists.       *)
(* Python strings (dict keys, key paths, header values) are sequences of   *)
(* one-character strings, so that strip('/') and split('/') are computed.  *)
(***************************************************************************)
EXTENDS Integers, Sequences, FiniteSets, TLC

VARIABLES
    op,               \* the function being called
    pc,               \* "call", "done" (returned), "raised", "again" ...
    err,              \* the exception type that propagated, "" when none
    data_to,          \* match_up / match_up_extra: the target dict
    data_from,        \* match_up / match_up_extra / has_extra: the source
    key_to,           \* match_up: path into data_to
    key_from,         \* match_up: path into data_from
    keys_to_exclude,  \* match_up_extra / has_extra: the exclusion dict
    data,             \* remove_member: the document
    member,           \* remove_member: the key to remove
    ret,              \* the value returned
    old,              \* the mutable argument as it was when the call began
    conn,             \* access_resource: the connection object
    res,              \* access_resource: the backend's response
    get_body,         \* access_resource: the get_body argument
    body,             \* access_resource: the local variable body
    values            \* access_resource: the local variable values

vars == <<op, pc, err, data_to, data_from, key_to, key_from, keys_to_exclude,
          data, member, ret, old, conn, res, get_body, body, values>>

reconVars == <<data_to, data_from, key_to, key_from, keys_to_exclude,
               data, member, old>>
probeVars == <<conn, res, get_body, body, values>>

----------------------------------------------------------------------------
(* Bounds of the model.                                                    *)

\* entries (dict items, at any depth) of a target dict, and of the source of
\* match_up_extra and has_extra
MaxNodes == 2
\* entries of the source of match_up
MaxFromNodes == 1
\* entries of an exclusion dict
MaxExclNodes == 2
\* entries (dict items plus list elements, at any depth) of the document of
\* remove_member
MaxDocNodes == 3
\* bytes of a backend response body
MaxBody == 2
\* segments of a match_up target path
MaxToSegs == 2
\* segments of a match_up source path
MaxFromSegs == 1

----------------------------------------------------------------------------
(* Python values.                                                          *)

None == [t |-> "null"]
Scalar(n) == [t |-> "scalar", v |-> n]
Map(f) == [t |-> "map", m |-> f]
List(s) == [t |-> "list", s |-> s]
EmptyMap == Map(<<>>)
EmptyList == List(<<>>)

\* the dict keys used in documents
Keys == {<<"a">>, <<"b">>}
KeyOrder == <<<<"a">>, <<"b">>>>

\* Python truthiness: `if value:`
Truthy(d) ==
    CASE d.t = "null" -> FALSE
      [] d.t = "scalar" -> d.v # 0
      [] d.t = "map" -> DOMAIN d.m # {}
      [] d.t = "list" -> d.s # <<>>

\* dict.get(key): the value, None when the key is absent
DictGet(d, k) == IF k \in DOMAIN d.m THEN d.m[k] ELSE None

\* d[k] = v on a dict
DictSet(d, k, v) ==
    Map([x \in DOMAIN d.m \cup {k} |-> IF x = k THEN v ELSE d.m[x]])

\* d.pop(k) on a dict that holds k
DictPop(d, k) == Map([x \in DOMAIN d.m \ {k} |-> d.m[x]])

----------------------------------------------------------------------------
(* Bounded sets of documents: at most n entries, over the given leaves.    *)

RECURSIVE DocsOfSize(_, _, _), MapsOfSize(_, _, _, _), ListsOfSize(_, _, _)

\* dicts of exactly n entries in all, over the keys KeyOrder[i..]
MapsOfSize(i, n, leaves, lists) ==
    IF i > Len(KeyOrder) THEN (IF n = 0 THEN {<<>>} ELSE {})
    ELSE MapsOfSize(i + 1, n, leaves, lists) \cup
         UNION { { [x \in DOMAIN f \cup {KeyOrder[i]} |->
                       IF x = KeyOrder[i] THEN v ELSE f[x]] :
                     v \in DocsOfSize(j, leaves, lists),
                     f \in MapsOfSize(i + 1, n - 1 - j, leaves, lists) } :
                 j \in 0 .. (n - 1) }

\* lists of exactly n entries in all
ListsOfSize(n, leaves, lists) ==
    IF n = 0 THEN {<<>>}
    ELSE UNION { { <<v>> \o s : v \in DocsOfSize(j, leaves, lists),
                                s \in ListsOfSize(n - 1 - j, leaves, lists) } :
                 j \in 0 .. (n - 1) }

DocsOfSize(n, leaves, lists) ==
    IF n = 0 THEN leaves \cup {EmptyMap} \cup (IF lists THEN {EmptyList} ELSE {})
    ELSE { Map(f) : f \in MapsOfSize(1, n, leaves, lists) } \cup
         (IF lists THEN { List(s) : s \in ListsOfSize(n, leaves, lists) } ELSE {})

DocsUpTo(n, leaves, lists) == UNION { DocsOfSize(j, leaves, lists) : j \in 0 .. n }
DictsUpTo(n, leaves, lists) == { d \in DocsUpTo(n, leaves, lists) : d.t = "map" }

\* None, a falsy number, a truthy number
Leaves == {None, Scalar(0), Scalar(1)}

\* the leaves of a match_up target: a falsy number there acts as None does
ToLeaves == {None, Scalar(1)}

----------------------------------------------------------------------------
(* Python strings as sequences of characters.                              *)

Slash == "/"

RECURSIVE LStrip(_), RStrip(_), SplitFrom(_, _, _), Join(_)

LStrip(s) == IF s # <<>> /\ Head(s) = Slash THEN LStrip(Tail(s)) ELSE s
RStrip(s) ==
    IF s # <<>> /\ s[Len(s)] = Slash THEN RStrip(SubSeq(s, 1, Len(s) - 1)) ELSE s

\* str.strip('/')
Strip(s) == RStrip(LStrip(s))

\* str.split('/'): cur is the segment being read, acc the segments read
SplitFrom(s, cur, acc) ==
    IF s = <<>> THEN Append(acc, cur)
    ELSE IF Head(s) = Slash THEN SplitFrom(Tail(s), <<>>, Append(acc, cur))
    ELSE SplitFrom(Tail(s), Append(cur, Head(s)), acc)

Split(s) == SplitFrom(s, <<>>, <<>>)

\* '/'.join(segs)
Join(segs) ==
    IF segs = <<>> THEN <<>>
    ELSE IF Len(segs) = 1 THEN segs[1]
    ELSE segs[1] \o <<Slash>> \o Join(Tail(segs))

SegSeqs(n) == UNION { [1 .. k -> Keys] : k \in 0 .. n }

\* key paths of at most n segments; the short ones also with a leading and
\* a trailing slash
Paths(n) ==
    { Join(s) : s \in SegSeqs(n) } \cup
    { <<Slash>> \o Join(s) \o <<Slash>> : s \in { q \in SegSeqs(n) : Len(q) <= 1 } }

----------------------------------------------------------------------------
(* match_up and its inner get_member.                                      *)

RECURSIVE Walk(_, _, _, _, _)

\* the loop `for idx in range(key_lens)` from index idx (1-based) on; trail
\* is the keys followed so far, which locate value inside the document
Walk(value, keys, idx, key_lens, trail) ==
    IF idx > key_lens THEN [raised |-> FALSE, value |-> value, trail |-> trail]
    ELSE IF Truthy(value)
         THEN IF value.t # "map"
              THEN [raised |-> TRUE, value |-> None, trail |-> trail]
              ELSE Walk(DictGet(value, keys[idx]), keys, idx + 1, key_lens,
                        Append(trail, keys[idx]))
         ELSE [raised |-> FALSE, value |-> value, trail |-> trail]

\* get_member(data, key_path, get_parent): value, mem_key (<<>> for None),
\* where value lies in data, and whether .get raised AttributeError
get_member(d, key_path, get_parent) ==
    IF key_path = <<>>
    THEN [raised |-> FALSE, value |-> None, mem_key |-> <<>>, trail |-> <<>>]
    ELSE LET keys == Split(Strip(key_path))
             key_lens == IF get_parent THEN Len(keys) - 1 ELSE Len(keys)
             mem_key == IF get_parent THEN keys[Len(keys)] ELSE <<>>
             w == Walk(d, keys, 1, key_lens, <<>>)
         IN  [raised |-> w.raised, value |-> w.value, mem_key |-> mem_key,
              trail |-> w.trail]

RECURSIVE WriteAt(_, _, _, _)

\* a write that lands in the root dict whatever the parent
WriteAtRoot(d, trail, key, v) == DictSet(d, key, v)

\* the document d after node[key] = v, node being the dict reached from d by
\* the keys of trail
WriteAt(d, trail, key, v) ==
    IF trail = <<>> THEN DictSet(d, key, v)
    ELSE Map([d.m EXCEPT ![Head(trail)] = WriteAt(d.m[Head(trail)], Tail(trail), key, v)])

\* match_up(data_to, data_from, key_to, key_from): the exception raised (""
\* when none) and data_to afterwards
match_up(to, from, kto, kfrom) ==
    LET p == get_member(to, kto, TRUE) IN
    IF p.raised THEN [err |-> "AttributeError", to |-> to]
    ELSE IF p.mem_key = <<>> THEN [err |-> "", to |-> to]
    ELSE LET s == get_member(from, kfrom, FALSE) IN
         IF s.raised THEN [err |-> "AttributeError", to |-> to]
         ELSE IF p.value.t # "map" THEN [err |-> "TypeError", to |-> to]
         ELSE [err |-> "", to |-> WriteAt(to, p.trail, p.mem_key, s.value)]

InitMatchUp ==
    /\ op = "match_up"
    /\ pc = "call"
    /\ err = ""
    /\ data_to \in DictsUpTo(MaxNodes, ToLeaves, FALSE)
    /\ data_from \in DictsUpTo(MaxFromNodes, Leaves, FALSE)
    /\ key_to = <<>>
    /\ key_from = <<>>
    /\ keys_to_exclude = None
    /\ data = None
    /\ member = <<>>
    /\ ret = None
    /\ old = [to |-> data_to, from |-> data_from]
    /\ conn = None /\ res = None /\ get_body = FALSE /\ body = None /\ values = None

MatchUp ==
    /\ op = "match_up"
    /\ pc = "call"
    /\ \E kto \in Paths(MaxToSegs), kfrom \in Paths(MaxFromSegs) :
         LET r == match_up(data_to, data_from, kto, kfrom) IN
         /\ key_to' = kto
         /\ key_from' = kfrom
         /\ data_to' = r.to
         /\ err' = r.err
         /\ pc' = IF r.err = "" THEN "done" ELSE "raised"
    /\ UNCHANGED <<op, data_from, keys_to_exclude, data, member, ret, old>>
    /\ UNCHANGED probeVars

NextMatchUp == MatchUp

SpecMatchUp == InitMatchUp /\ [][NextMatchUp]_vars

----------------------------------------------------------------------------
(* What the claims speak of: segments, resolution by key lookup, and a     *)
(* document as the set of its nodes.                                       *)

\* p is the segments segs joined by '/', with or without a leading and a
\* trailing '/'
HasSegs(p, segs) ==
    /\ segs # <<>>
    /\ p \in { Join(segs), <<Slash>> \o Join(segs), Join(segs) \o <<Slash>>,
               <<Slash>> \o Join(segs) \o <<Slash>> }

RECURSIVE Resolves(_, _), ValueAt(_, _)

\* every segment is a key of the mapping reached so far
Resolves(d, segs) ==
    IF segs = <<>> THEN TRUE
    ELSE /\ d.t = "map"
         /\ Head(segs) \in DOMAIN d.m
         /\ Resolves(d.m[Head(segs)], Tail(segs))

ValueAt(d, segs) ==
    IF segs = <<>> THEN d ELSE ValueAt(d.m[Head(segs)], Tail(segs))

Front(segs) == SubSeq(segs, 1, Len(segs) - 1)
Last(segs) == segs[Len(segs)]

\* all segments but the last resolve to a mapping
ParentResolves(d, segs) ==
    /\ Resolves(d, Front(segs))
    /\ ValueAt(d, Front(segs)).t = "map"

\* some segment of segs is absent from the mapping reached so far
SomeAbsent(d, segs) ==
    \E i \in 1 .. Len(segs) :
        /\ Resolves(d, SubSeq(segs, 1, i - 1))
        /\ LET x == ValueAt(d, SubSeq(segs, 1, i - 1)) IN
           x.t = "map" /\ segs[i] \notin DOMAIN x.m

\* some segment of segs is looked up in a mapping that lacks it or in a
\* falsy value
SomeMissing(d, segs) ==
    \E i \in 1 .. Len(segs) :
        /\ Resolves(d, SubSeq(segs, 1, i - 1))
        /\ LET x == ValueAt(d, SubSeq(segs, 1, i - 1)) IN
           \/ x.t = "map" /\ segs[i] \notin DOMAIN x.m
           \/ ~Truthy(x)

Digits == <<"0", "1", "2", "3", "4", "5", "6", "7", "8", "9">>
IndexStep(i) == <<"#", Digits[i + 1]>>

Label(d) ==
    CASE d.t = "null" -> [t |-> "null", v |-> 0]
      [] d.t = "scalar" -> [t |-> "scalar", v |-> d.v]
      [] d.t = "map" -> [t |-> "map", v |-> 0]
      [] d.t = "list" -> [t |-> "list", v |-> Len(d.s)]

RECURSIVE Nodes(_)

\* the nodes of a document: the steps that lead to each and what it is
Nodes(d) ==
    {[p |-> <<>>, k |-> Label(d)]} \cup
    (CASE d.t = "map" ->
            UNION { { [p |-> <<x>> \o n.p, k |-> n.k] : n \in Nodes(d.m[x]) } :
                    x \in DOMAIN d.m }
       [] d.t = "list" ->
            UNION { { [p |-> <<IndexStep(i)>> \o n.p, k |-> n.k] : n \in Nodes(d.s[i]) } :
                    i \in 1 .. Len(d.s) }
       [] OTHER -> {})

IsPrefix(a, b) == Len(a) <= Len(b) /\ SubSeq(b, 1, Len(a)) = a

ToSegs == SegSeqs(MaxToSegs) \ {<<>>}
FromSegs == SegSeqs(MaxFromSegs) \ {<<>>}

MatchUpEnded == op = "match_up" /\ pc # "call"

----------------------------------------------------------------------------
(* Claims about match_up.                                                  *)

\* C1: when some segment of the target path before the last is absent from
\* the mapping reached so far, match_up returns without error and leaves
\* the target as it was.
C1_UnresolvedParentIsNoOp ==
    MatchUpEnded =>
        \A ts \in ToSegs :
            (/\ Len(ts) >= 2
             /\ HasSegs(key_to, ts)
             /\ SomeAbsent(old.to, Front(ts)))
            => (pc = "done" /\ data_to = old.to)

\* C2: when every segment of the target path but the last resolves to a
\* mapping and the source path resolves to a value v, match_up returns, the
\* target is the old target with v under the last segment of the addressed
\* mapping and every other node as it was, and the source is as it was.
C2_ResolvedWriteAndFrame ==
    MatchUpEnded =>
        \A ts \in ToSegs :
            (ParentResolves(old.to, ts) /\ HasSegs(key_to, ts)) =>
                \A fs \in FromSegs :
                    (Resolves(data_from, fs) /\ HasSegs(key_from, fs)) =>
                        /\ pc = "done"
                        /\ Nodes(data_to) =
                             { n \in Nodes(old.to) : ~IsPrefix(ts, n.p) } \cup
                             { [p |-> ts \o n.p, k |-> n.k] :
                                 n \in Nodes(ValueAt(data_from, fs)) }
                        /\ data_from = old.from

\* a call that wrote below the root of a target holding another key
C2_Witness ==
    /\ MatchUpEnded
    /\ pc = "done"
    /\ \E ts \in ToSegs, fs \in FromSegs :
         /\ Len(ts) = 2
         /\ HasSegs(key_to, ts)
         /\ HasSegs(key_from, fs)
         /\ ParentResolves(old.to, ts)
         /\ Resolves(data_from, fs)
         /\ ValueAt(data_from, fs) # None
         /\ Cardinality(DOMAIN old.to.m) = 2
         /\ data_to # old.to

\* C3: when the target parent resolves and some segment of the source path
\* is missing (looked up in a mapping that lacks it, or in an empty or
\* otherwise falsy value), the value written under the final key is None.
C3_MissingSourceWritesNone ==
    MatchUpEnded =>
        \A ts \in ToSegs, fs \in FromSegs :
            (/\ HasSegs(key_to, ts)
             /\ HasSegs(key_from, fs)
             /\ ParentResolves(old.to, ts)
             /\ SomeMissing(data_from, fs))
            => /\ pc = "done"
               /\ Resolves(data_to, ts)
               /\ ValueAt(data_to, ts) = None

\* C8: no reconciliation operation ends by raising.
C8_ReconciliationNeverRaises ==
    op \in {"match_up", "match_up_extra", "has_extra", "remove_member"}
        => pc # "raised"

----------------------------------------------------------------------------
(* match_up_extra.                                                         *)

\* exclusion dicts: each key maps to None or to a nested exclusion dict
ExclusionSets == DictsUpTo(MaxExclNodes, {None}, FALSE)

\* the membership test inverted
NotInExclude(key, excl) == key \notin DOMAIN excl.m

\* `key in keys_to_exclude`
InExclude(key, excl) == key \in DOMAIN excl.m

RECURSIVE ExtraLoop(_, _, _, _)

\* the loop `for key in data_from` over the keys not yet visited; the order
\* of a dict's keys is any
ExtraLoop(to, from, excl, left) ==
    IF left = {} THEN {to}
    ELSE UNION { ExtraLoop(IF InExclude(key, excl) THEN to
                           ELSE DictSet(to, key, DictGet(from, key)),
                           from, excl, left \ {key}) : key \in left }

\* match_up_extra(data_to, data_from, keys_to_exclude): the values data_to
\* may have afterwards
match_up_extra(to, from, excl) == ExtraLoop(to, from, excl, DOMAIN from.m)

InitExtra ==
    /\ op = "match_up_extra"
    /\ pc = "call"
    /\ err = ""
    /\ data_to \in DictsUpTo(MaxNodes, Leaves, FALSE)
    /\ data_from \in DictsUpTo(MaxNodes, Leaves, FALSE)
    /\ key_to = <<>>
    /\ key_from = <<>>
    /\ keys_to_exclude \in ExclusionSets
    /\ data = None
    /\ member = <<>>
    /\ ret = None
    /\ old = [to |-> data_to, from |-> data_from]
    /\ conn = None /\ res = None /\ get_body = FALSE /\ body = None /\ values = None

MatchUpExtra ==
    /\ op = "match_up_extra"
    /\ pc = "call"
    /\ data_to' \in match_up_extra(data_to, data_from, keys_to_exclude)
    /\ pc' = "done"
    /\ UNCHANGED <<op, err, data_from, key_to, key_from, keys_to_exclude, data,
                   member, ret, old>>
    /\ UNCHANGED probeVars

NextExtra == MatchUpExtra

SpecExtra == InitExtra /\ [][NextExtra]_vars

\* C9: after match_up_extra every top-level key of the source that is not
\* excluded is in the target with the source's value; every key of the
\* target that is excluded, or that the source lacks, keeps its value; the
\* source is as it was.
C9_CopyExtraFrame ==
    (op = "match_up_extra" /\ pc = "done") =>
        /\ \A k \in DOMAIN data_from.m :
             k \notin DOMAIN keys_to_exclude.m
             => (k \in DOMAIN data_to.m /\ data_to.m[k] = data_from.m[k])
        /\ \A k \in DOMAIN old.to.m :
             (k \in DOMAIN keys_to_exclude.m \/ k \notin DOMAIN data_from.m)
             => (k \in DOMAIN data_to.m /\ data_to.m[k] = old.to.m[k])
        /\ data_from = old.from

\* a call that overwrote one key with a nested value and kept an excluded
\* key that the source holds too
C9_Witness ==
    /\ op = "match_up_extra"
    /\ pc = "done"
    /\ \E k \in DOMAIN data_from.m, x \in DOMAIN data_from.m :
         /\ k \notin DOMAIN keys_to_exclude.m
         /\ k \in DOMAIN old.to.m
         /\ old.to.m[k] # data_from.m[k]
         /\ x \in DOMAIN keys_to_exclude.m
         /\ x \in DOMAIN old.to.m
         /\ old.to.m[x] # data_from.m[x]

----------------------------------------------------------------------------
(* has_extra.                                                              *)

RECURSIVE has_extra(_, _), HasExtraLoop(_, _, _)

\* the loop `for key in data_from` of a dict over the keys not yet visited,
\* in any order: the outcomes it may end with
HasExtraLoop(from, excl, left) ==
    IF left = {} THEN {[err |-> "", ret |-> FALSE]}
    ELSE UNION {
        IF key \in DOMAIN excl.m
        THEN LET value == DictGet(excl, key) IN
             IF Truthy(value)
             THEN UNION { IF o.err # "" \/ o.ret
                          THEN {o}
                          ELSE HasExtraLoop(from, excl, left \ {key}) :
                          o \in has_extra(DictGet(from, key), value) }
             ELSE HasExtraLoop(from, excl, left \ {key})
        ELSE {[err |-> "", ret |-> TRUE]} : key \in left }

\* has_extra(data_from, keys_to_exclude): the outcomes the call may have.
\* None and numbers are not iterable; the elements of a list are no keys
\* of keys_to_exclude.
has_extra(from, excl) ==
    CASE from.t = "map" -> HasExtraLoop(from, excl, DOMAIN from.m)
      [] from.t = "list" ->
            IF from.s = <<>> THEN {[err |-> "", ret |-> FALSE]}
            ELSE {[err |-> "", ret |-> TRUE]}
      [] OTHER -> {[err |-> "TypeError", ret |-> FALSE]}

InitHasExtra ==
    /\ op = "has_extra"
    /\ pc = "call"
    /\ err = ""
    /\ data_to = None
    /\ data_from \in DictsUpTo(MaxNodes, Leaves, FALSE)
    /\ key_to = <<>>
    /\ key_from = <<>>
    /\ keys_to_exclude \in ExclusionSets
    /\ data = None
    /\ member = <<>>
    /\ ret = None
    /\ old = [to |-> None, from |-> data_from]
    /\ conn = None /\ res = None /\ get_body = FALSE /\ body = None /\ values = None

HasExtra ==
    /\ op = "has_extra"
    /\ pc = "call"
    /\ \E o \in has_extra(data_from, keys_to_exclude) :
         /\ err' = o.err
         /\ ret' = IF o.err = "" THEN [t |-> "bool", v |-> o.ret] ELSE None
         /\ pc' = IF o.err = "" THEN "done" ELSE "raised"
    /\ UNCHANGED <<op, data_to, data_from, key_to, key_from, keys_to_exclude,
                   data, member, old>>
    /\ UNCHANGED probeVars

NextHasExtra == HasExtra

SpecHasExtra == InitHasExtra /\ [][NextHasExtra]_vars

RECURSIVE SomeNameUnaccounted(_, _)

\* some attribute name at a visited level is absent from the exclusion set
\* of that level; the level under a name is visited when the name's
\* exclusion value is a nested exclusion set, an empty one included
SomeNameUnaccounted(d, e) ==
    /\ d.t = "map"
    /\ \E k \in DOMAIN d.m :
         \/ k \notin DOMAIN e.m
         \/ /\ k \in DOMAIN e.m
            /\ e.m[k].t = "map"
            /\ SomeNameUnaccounted(d.m[k], e.m[k])

\* C4: has_extra returns true exactly when some attribute name at a visited
\* level is absent from that level's exclusion set, whatever the order in
\* which the keys are visited.
C4_HasExtraAgreesWithReference ==
    (op = "has_extra" /\ pc = "done") =>
        ret.v = SomeNameUnaccounted(data_from, keys_to_exclude)

----------------------------------------------------------------------------
(* remove_member.                                                          *)

RECURSIVE remove_member(_, _), remove_member_dicts_only(_, _)

\* a remove_member without the list branch
remove_member_dicts_only(d, m) ==
    CASE d.t = "map" ->
            LET popped == IF m \in DOMAIN d.m THEN DictPop(d, m) ELSE d IN
            Map([key \in DOMAIN popped.m |->
                    remove_member_dicts_only(DictGet(popped, key), m)])
      [] OTHER -> d

\* remove_member(data, member): data afterwards
remove_member(d, m) ==
    CASE d.t = "map" ->
            LET popped == IF m \in DOMAIN d.m THEN DictPop(d, m) ELSE d IN
            Map([key \in DOMAIN popped.m |-> remove_member(DictGet(popped, key), m)])
      [] d.t = "list" ->
            List([i \in 1 .. Len(d.s) |-> remove_member(d.s[i], m)])
      [] OTHER -> d

InitRemove ==
    /\ op = "remove_member"
    /\ pc = "call"
    /\ err = ""
    /\ data_to = None
    /\ data_from = None
    /\ key_to = <<>>
    /\ key_from = <<>>
    /\ keys_to_exclude = None
    /\ data \in DocsUpTo(MaxDocNodes, Leaves, TRUE)
    /\ member \in Keys
    /\ ret = None
    /\ old = [doc |-> data, once |-> None]
    /\ conn = None /\ res = None /\ get_body = FALSE /\ body = None /\ values = None

\* the first call
RemoveMember ==
    /\ op = "remove_member"
    /\ pc = "call"
    /\ data' = remove_member(data, member)
    /\ old' = [old EXCEPT !.once = data']
    /\ pc' = "done"
    /\ UNCHANGED <<op, err, data_to, data_from, key_to, key_from,
                   keys_to_exclude, member, ret>>
    /\ UNCHANGED probeVars

\* a second call with the same member
RemoveMemberAgain ==
    /\ op = "remove_member"
    /\ pc = "done"
    /\ data' = remove_member(data, member)
    /\ pc' = "again"
    /\ UNCHANGED <<op, err, data_to, data_from, key_to, key_from,
                   keys_to_exclude, member, ret, old>>
    /\ UNCHANGED probeVars

NextRemove == RemoveMember \/ RemoveMemberAgain

SpecRemove == InitRemove /\ [][NextRemove]_vars

Steps(p) == { p[i] : i \in 1 .. Len(p) }

\* C5: after remove_member the document is the old one without the nodes
\* reached through a key equal to member (so no mapping at any depth, under
\* mapping values or list elements, holds that key, and every other node is
\* as it was), and a second call leaves the document as the first left it.
C5_StripPostconditionAndIdempotence ==
    (op = "remove_member" /\ pc \in {"done", "again"}) =>
        /\ Nodes(data) = { n \in Nodes(old.doc) : member \notin Steps(n.p) }
        /\ \A n \in Nodes(data) : member \notin Steps(n.p)
        /\ pc = "again" => data = old.once

\* a second call on a document that held member in a dict inside a list
\* inside a list
C5_Witness ==
    /\ op = "remove_member"
    /\ pc = "again"
    /\ \E n \in Nodes(old.doc) :
         /\ Len(n.p) = 3
         /\ n.p[1] = IndexStep(1)
         /\ n.p[2] = IndexStep(1)
         /\ n.p[3] = member

----------------------------------------------------------------------------
(* The four reconciliation operations together.                            *)

InitRecon == InitMatchUp \/ InitExtra \/ InitHasExtra \/ InitRemove

NextRecon == MatchUp \/ MatchUpExtra \/ HasExtra \/ RemoveMember \/ RemoveMemberAgain

SpecRecon == InitRecon /\ [][NextRecon]_vars

----------------------------------------------------------------------------
(* access_resource.                                                        *)

Str(s) == [t |-> "str", s |-> s]

\* the status codes a backend answers with
Statuses == {200, 201, 204, 404, 413, 302, 500}

\* the body the backend sends: n distinct bytes
Streams == { [i \in 1 .. n |-> i] : n \in 0 .. MaxBody }

\* the decimal numeral of n, 0 <= n <= 9
Numeral(n) == <<Digits[n + 1]>>

\* the values of a content-length header: numerals, an empty value and a
\* value that is no number
ContentLengths == { Numeral(n) : n \in 0 .. (MaxBody + 1) } \cup {<<>>, <<"x">>}

\* the headers of a response: content-length or not, etag or not
HeaderSets ==
    UNION { { [h \in hs |-> IF h = "content-length" THEN cl ELSE <<"e">>] :
                cl \in ContentLengths } :
            hs \in SUBSET {"content-length", "etag"} }

DigitValue(c) == CHOOSE n \in 0 .. 9 : Digits[n + 1] = c

IsNumber(s) == s # <<>> /\ \A i \in 1 .. Len(s) : \E n \in 0 .. 9 : Digits[n + 1] = s[i]

RECURSIVE IntOf(_)

\* int(s) of a string of digits
IntOf(s) ==
    IF s = <<>> THEN 0 ELSE 10 * IntOf(SubSeq(s, 1, Len(s) - 1)) + DigitValue(s[Len(s)])

\* res.getheader(name): None when the header is absent
GetHeader(r, name) == IF name \in DOMAIN r.headers THEN Str(r.headers[name]) ELSE None

\* `if length:` on a header value
TruthyStr(x) == x.t = "str" /\ x.s # <<>>

Min(a, b) == IF a <= b THEN a ELSE b

\* res.read(amt): at most amt bytes of the stream
ReadAmt(r, amt) == SubSeq(r.stream, 1, Min(amt, Len(r.stream)))

\* res.read(): the stream to its end
ReadAll(r) == r.stream

\* a classification that leaves 201 to the last branch
OutcomeWithout201(status) ==
    CASE status = 404 \/ status = 413 -> "NotFound"
      [] status = 200 \/ status = 204 -> "Success"
      [] OTHER -> "OtherStatus"

\* the branch the status selects
Outcome(status) ==
    CASE status = 404 \/ status = 413 -> "NotFound"
      [] status = 200 \/ status = 204 \/ status = 201 -> "Success"
      [] OTHER -> "OtherStatus"

\* a connection object: the constructor opens no socket, request() does
NewConnection ==
    [t |-> "conn", opened |-> 1, connected |-> FALSE, requests |-> 0,
     responses |-> 0, reads |-> 0, closed |-> FALSE, read_after_close |-> FALSE]

\* a close() that is forgotten
CloseForgotten(c) == c

\* conn.close()
Close(c) == [c EXCEPT !.closed = TRUE]

\* a read of the response body over the connection
CountRead(c) ==
    [c EXCEPT !.reads = @ + 1, !.read_after_close = @ \/ c.closed]

\* the dict built from res.getheaders()
HeaderDict(r) == r.headers

InitProbe ==
    /\ op = "access_resource"
    /\ pc = "call"
    /\ err = ""
    /\ data_to = None /\ data_from = None /\ key_to = <<>> /\ key_from = <<>>
    /\ keys_to_exclude = None /\ data = None /\ member = <<>> /\ old = None
    /\ ret = None
    /\ conn = None
    /\ res = None
    /\ get_body \in BOOLEAN
    /\ body = None
    /\ values = None

probeFrame == UNCHANGED <<op, get_body>> /\ UNCHANGED reconVars

\* conn = connection(req.server_name, req.server_port)
Connect ==
    /\ op = "access_resource" /\ pc = "call"
    /\ conn' = NewConnection
    /\ pc' = "connected"
    /\ UNCHANGED <<err, ret, res, body, values>> /\ probeFrame

\* conn.request(method, path, body, headers)
SendRequest ==
    /\ op = "access_resource" /\ pc = "connected"
    /\ conn' = [conn EXCEPT !.connected = TRUE, !.requests = @ + 1]
    /\ pc' = "requested"
    /\ UNCHANGED <<err, ret, res, body, values>> /\ probeFrame

\* conn.request fails, connecting or sending on the connected socket: the
\* exception leaves access_resource
SendRequestFails ==
    /\ op = "access_resource" /\ pc = "connected"
    /\ \E connected \in BOOLEAN : conn' = [conn EXCEPT !.connected = connected]
    /\ err' = "socket.error"
    /\ pc' = "raised"
    /\ UNCHANGED <<ret, res, body, values>> /\ probeFrame

\* res = conn.getresponse()
GetResponse ==
    /\ op = "access_resource" /\ pc = "requested"
    /\ \E st \in Statuses, hd \in HeaderSets, bytes \in Streams :
         res' = [t |-> "response", status |-> st, headers |-> hd, stream |-> bytes]
    /\ conn' = [conn EXCEPT !.responses = @ + 1]
    /\ pc' = "responded"
    /\ UNCHANGED <<err, ret, body, values>> /\ probeFrame

\* conn.getresponse fails
GetResponseFails ==
    /\ op = "access_resource" /\ pc = "requested"
    /\ err' = "HTTPException"
    /\ pc' = "raised"
    /\ UNCHANGED <<ret, conn, res, body, values>> /\ probeFrame

\* status 404 or 413: conn.close()
NotFoundClose ==
    /\ op = "access_resource" /\ pc = "responded"
    /\ Outcome(res.status) = "NotFound"
    /\ conn' = Close(conn)
    /\ pc' = "notfound_closed"
    /\ UNCHANGED <<err, ret, res, body, values>> /\ probeFrame

\* return False, {}, None, res.status
NotFoundReturn ==
    /\ op = "access_resource" /\ pc = "notfound_closed"
    /\ ret' = [exists |-> FALSE, headers |-> <<>>, body |-> None,
               status |-> res.status]
    /\ pc' = "done"
    /\ UNCHANGED <<err, conn, res, body, values>> /\ probeFrame

\* status 200, 204 or 201: the headers are collected into values
SuccessHeaders ==
    /\ op = "access_resource" /\ pc = "responded"
    /\ Outcome(res.status) = "Success"
    /\ values' = HeaderDict(res)
    /\ pc' = "success_headers"
    /\ UNCHANGED <<err, ret, conn, res, body>> /\ probeFrame

\* get_body: body = res.read(int(length)) or res.read()
ReadBody ==
    /\ op = "access_resource" /\ pc = "success_headers"
    /\ get_body
    /\ LET length == GetHeader(res, "content-length") IN
       IF TruthyStr(length)
       THEN IF IsNumber(length.s)
            THEN /\ body' = Str(ReadAmt(res, IntOf(length.s)))
                 /\ conn' = CountRead(conn)
                 /\ pc' = "success_body"
                 /\ err' = err
            ELSE /\ err' = "ValueError"
                 /\ pc' = "raised"
                 /\ UNCHANGED <<body, conn>>
       ELSE /\ body' = Str(ReadAll(res))
            /\ conn' = CountRead(conn)
            /\ pc' = "success_body"
            /\ err' = err
    /\ UNCHANGED <<ret, res, values>> /\ probeFrame

\* res.read fails
ReadBodyFails ==
    /\ op = "access_resource" /\ pc = "success_headers"
    /\ get_body
    /\ LET length == GetHeader(res, "content-length") IN
       TruthyStr(length) => IsNumber(length.s)
    /\ conn' = CountRead(conn)
    /\ err' = "socket.error"
    /\ pc' = "raised"
    /\ UNCHANGED <<ret, res, body, values>> /\ probeFrame

\* not get_body: body = ""
NoBody ==
    /\ op = "access_resource" /\ pc = "success_headers"
    /\ ~get_body
    /\ body' = Str(<<>>)
    /\ pc' = "success_body"
    /\ UNCHANGED <<err, ret, conn, res, values>> /\ probeFrame

\* conn.close() of the success branch
SuccessClose ==
    /\ op = "access_resource" /\ pc = "success_body"
    /\ conn' = Close(conn)
    /\ pc' = "success_closed"
    /\ UNCHANGED <<err, ret, res, body, values>> /\ probeFrame

\* return True, values, body, res.status
SuccessReturn ==
    /\ op = "access_resource" /\ pc = "success_closed"
    /\ ret' = [exists |-> TRUE, headers |-> values, body |-> body,
               status |-> res.status]
    /\ pc' = "done"
    /\ UNCHANGED <<err, conn, res, body, values>> /\ probeFrame

\* any other status: the headers are collected into values
OtherHeaders ==
    /\ op = "access_resource" /\ pc = "responded"
    /\ Outcome(res.status) = "OtherStatus"
    /\ values' = HeaderDict(res)
    /\ pc' = "other_headers"
    /\ UNCHANGED <<err, ret, conn, res, body>> /\ probeFrame

\* conn.close() of the last branch
OtherClose ==
    /\ op = "access_resource" /\ pc = "other_headers"
    /\ conn' = Close(conn)
    /\ pc' = "other_closed"
    /\ UNCHANGED <<err, ret, res, body, values>> /\ probeFrame

\* return True, values, None, res.status
OtherReturn ==
    /\ op = "access_resource" /\ pc = "other_closed"
    /\ ret' = [exists |-> TRUE, headers |-> values, body |-> None,
               status |-> res.status]
    /\ pc' = "done"
    /\ UNCHANGED <<err, conn, res, body, values>> /\ probeFrame

NextProbe ==
    \/ Connect
    \/ SendRequest
    \/ SendRequestFails
    \/ GetResponse
    \/ GetResponseFails
    \/ NotFoundClose
    \/ NotFoundReturn
    \/ SuccessHeaders
    \/ ReadBody
    \/ ReadBodyFails
    \/ NoBody
    \/ SuccessClose
    \/ SuccessReturn
    \/ OtherHeaders
    \/ OtherClose
    \/ OtherReturn

SpecProbe == InitProbe /\ [][NextProbe]_vars

ProbeReturned == op = "access_resource" /\ pc = "done"

C7_ConnectionProtocol ==
    ProbeReturned =>
        /\ conn.opened = 1
        /\ conn.requests = 1
        /\ conn.responses = 1
        /\ conn.reads = (IF res.status \in {200, 201, 204} /\ get_body THEN 1 ELSE 0)
        /\ ~conn.read_after_close
        /\ conn.connected
        /\ conn.closed

\* a return from the last branch with get_body set
C7_Witness ==
    /\ ProbeReturned
    /\ res.status = 500
    /\ get_body
    /\ conn.closed
    /\ conn.reads = 0

\* C10: no invocation ends, by return or by a propagated failure, with its
\* connection still open.
C10_ClosedOnEveryExit ==
    (op = "access_resource" /\ pc \in {"done", "raised"}) =>
        (conn.connected => conn.closed)

=============================================================================
